---- MODULE Spec2Model ----
(***************************************************************************)
(* Voice authentication system: the energy based voice activity detector  *)
(* (voiceauth/vad.py), the feature extraction front end that calls it     *)
(* (voiceauth/feature_extraction.py), batch corpus loading (voiceauth/    *)
(* UBM.py, voiceauth/gmm.py), the decision routines (voiceauth/           *)
(* speaker_model.py, voice_auth.py) and the enrollment / verification     *)
(* state machine of VoiceVerifier (voiceauth/voice_verifier.py) with its  *)
(* persisted embedding and threshold files.                               *)
(* Further sections model the worker pool, threshold calibration and      *)
(* save_gmm_model (voiceauth/gmm.py), mixture training (voiceauth/UBM.py,  *)
(* voiceauth/gmm.py) and the login command (main.py).                      *)
(*                                                                         *)
(* Numbers.  Samples are integers.  For dtype "int16" they are the PCM    *)
(* values themselves and arithmetic on them wraps at 16 bits as numpy's   *)
(* does; for dtype "float" they stand for real sample values on an        *)
(* integer grid and arithmetic is exact.  Similarity scores and           *)
(* thresholds are in hundredths (0.7 is 70).                              *)
(***************************************************************************)
EXTENDS Integers, Sequences, FiniteSets, TLC

VARIABLES
    vadIn,              \* the call under study: [dtype, rate, audio]
    vadOut,             \* outcome of detect_speech on vadIn, or NotRun
    featOut,            \* outcome of extract_features on vadIn, or NotRun
    files,              \* the corpus file list given to batch loading
    ubmPool,            \* outcome of UBM.py load_features_from_directory
    gmmPool,            \* outcome of gmm.py load_features_from_directory
    embFile,            \* disk: {username}_embedding.pt, or Absent
    thrFile,            \* disk: {username}_threshold.json, or Absent
    enrolled_speakers,  \* per instance: username -> embedding, or Absent
    thresholds,         \* per instance: username -> threshold, or Absent
    pc,                 \* per process: where its current call stands
    call,               \* per process: locals of its current call
    ret,                \* what the step just taken returned to its caller, or NoRet
    runs,               \* history: enrollment runs started so far
    taskStarted,        \* worker pool: tasks handed to a worker so far
    taskDone,           \* worker pool: finished tasks, in order of completion
    collected,          \* worker pool: tasks whose result the parent has taken
    parPool,            \* outcome of gmm.py load_features_from_directory, or NotRun
    fxIn,               \* the call under study: [matrix, variances]
    deltaOut,           \* calculate_delta and its second application, or NotRun
    keptOut,            \* the dimensions the variance filter keeps, or NotRun
    combOut,            \* the combined feature matrix of lines 69-91, or NotRun
    calIn,              \* the call under study: list of enrollment scores
    calOut,             \* outcome of calculate_threshold, or NotRun
    recOut,             \* the record save_gmm_model wrote and its reading, or NotRun
    saveIn,             \* the save under study: [model_path, with_threshold]
    gmmDisk,            \* disk: path -> what save_gmm_model left there, or Absent
    trainIn,            \* the call under study: [X, resp, n_components]
    ubmFile,            \* disk: ubm_model.pkl, or Absent
    ubmOut,             \* outcome of train_ubm, or NotRun
    gmmOut,             \* outcome of train_gmm, or NotRun
    loginIn,            \* the login under study: what its collaborators will do
    loginPc,            \* main.py login: where the command stands
    loginDet,           \* the detector result login holds, or NotRun
    verifyCalls,        \* history: verify_speaker calls login has made
    loginRet            \* what login returned, or NotRun

vadVars == <<vadIn, vadOut, featOut>>
batchVars == <<files, ubmPool, gmmPool>>
sysVars == <<embFile, thrFile, enrolled_speakers, thresholds, pc, call, ret,
             runs>>
poolVars == <<taskStarted, taskDone, collected, parPool>>
fxVars == <<fxIn, deltaOut, keptOut, combOut>>
calVars == <<calIn, calOut, recOut, saveIn, gmmDisk>>
trainVars == <<trainIn, ubmFile, ubmOut, gmmOut>>
loginVars == <<loginIn, loginPc, loginDet, verifyCalls, loginRet>>
moreVars == <<poolVars, fxVars, calVars, trainVars, loginVars>>
vars == <<vadVars, batchVars, sysVars, moreVars>>

NotRun == [kind |-> "not_run"]
Absent == [present |-> FALSE]     \* a file that does not exist, a key not held

----------------------------------------------------------------------------
(* Bounds of the pure-function specifications *)

MaxLen == 5                       \* longest audio buffer enumerated
SampleVals == {0, 1, 16, 200, 256}
DTypes == {"float", "int16"}
Rates == {100, 175}               \* sampling rates (Hz) enumerated

----------------------------------------------------------------------------
(* voiceauth/vad.py *)

FrameDurationMs == 20             \* frame_duration = 0.02 s
MinSpeechEnergyPct == 1           \* min_speech_energy = 0.01

\* two's complement wraparound of a 16 bit signed integer
Wrap16(v) == ((v + 32768) % 65536) - 32768

\* frame**2, elementwise: an int16 array stays int16, so the square wraps
Square(dtype, x) == IF dtype = "int16" THEN Wrap16(x * x) ELSE x * x

\* np.sum(frame**2): the sum itself is accumulated in 64 bits (no wrap here);
\* summed pairwise, over the index range lo..hi
RECURSIVE SumSquaresRange(_, _, _, _)
SumSquaresRange(dtype, frame, lo, hi) ==
    IF lo > hi THEN 0
    ELSE IF lo = hi THEN Square(dtype, frame[lo])
    ELSE SumSquaresRange(dtype, frame, lo, (lo + hi) \div 2)
         + SumSquaresRange(dtype, frame, (lo + hi) \div 2 + 1, hi)

SumSquares(dtype, frame) == SumSquaresRange(dtype, frame, 1, Len(frame))

\* frame_size = int(frame_duration * sampling_rate)
frame_size(rate) == (FrameDurationMs * rate) \div 1000

\* n_frames = len(audio) // frame_size
n_frames(audio, rate) == Len(audio) \div frame_size(rate)

\* np.array_split(audio[:n_frames * frame_size], n_frames): n_frames equal
\* frames of frame_size samples; the trailing partial frame is cut off
Frames(audio, rate) ==
    [i \in 1..n_frames(audio, rate) |->
        SubSeq(audio, (i - 1) * frame_size(rate) + 1, i * frame_size(rate))]

\* energies, before normalisation, times the common frame length: every
\* frame has frame_size samples, so energies[i] = FrameEnergies[i]/frame_size
FrameEnergies(dtype, audio, rate) ==
    [i \in 1..n_frames(audio, rate) |-> SumSquares(dtype, Frames(audio, rate)[i])]

MaxOf(f) == CHOOSE m \in {f[i] : i \in DOMAIN f} : \A i \in DOMAIN f : f[i] <= m

\* (energies / np.max(energies))[i] > min_speech_energy.  The division is a
\* float division: x/0 is nan or +-inf with a warning, never an exception,
\* and nan > 0.01 and -inf > 0.01 are False (every e is <= mx).
speech_mask(e, mx) ==
    IF mx > 0 THEN 100 * e > MinSpeechEnergyPct * mx
    ELSE IF mx < 0 THEN 100 * e < MinSpeechEnergyPct * mx
    ELSE FALSE

RECURSIVE ConcatFrames(_, _, _)
ConcatFrames(frames, keep, i) ==
    IF i > Len(frames) THEN <<>>
    ELSE (IF i \in keep THEN frames[i] ELSE <<>>) \o ConcatFrames(frames, keep, i + 1)

Raised(err, zdiv) == [kind |-> "raise", error |-> err, zero_div |-> zdiv]
Returned(out, zdiv) == [kind |-> "return", out |-> out, zero_div |-> zdiv]

detect_speech(audio, dtype, rate) ==
    IF n_frames(audio, rate) = 0
    THEN Raised("number sections must be larger than 0.", FALSE)
    ELSE LET frames == Frames(audio, rate)
             energies == FrameEnergies(dtype, audio, rate)
             mx == MaxOf(energies)
             keep == {i \in DOMAIN frames : speech_mask(energies[i], mx)}
         IN  IF keep = {}
             THEN Raised("need at least one array to concatenate", mx = 0)
             ELSE Returned(ConcatFrames(frames, keep, 1), mx = 0)

----------------------------------------------------------------------------
(* voiceauth/feature_extraction.py: extract_features *)

NumCep == 20                      \* numcep = 20 cepstral coefficients
SkipFilterBelow == 100            \* np.all(feature_variances < 1e-4), in 1e-6
VarianceThresholdVal == 10        \* VarianceThreshold(threshold=1e-5), in 1e-6

\* mfcc(..., winlen=0.025, winstep=0.01): the number of analysis frames of a
\* signal of slen samples (window and step rounded half up to whole samples;
\* a signal shorter than one window is padded to one frame)
mfcc_frames(slen, rate) ==
    LET frame_len == (25 * rate + 500) \div 1000
        frame_step == (10 * rate + 500) \div 1000
    IN  IF slen <= frame_len THEN 1
        ELSE 1 + ((slen - frame_len) + frame_step - 1) \div frame_step

\* The per-dimension variances of the cepstral matrix (in units of 1e-6) are
\* a function of the audio content; they are an input here.
Uniform(v) == [i \in 1..NumCep |-> v]
WithLow(k, lo, hi) == [i \in 1..NumCep |-> IF i <= k THEN lo ELSE hi]
VarProfiles ==
    {Uniform(0), Uniform(50), Uniform(200),
     WithLow(1, 5, 200), WithLow(2, 10, 200), WithLow(1, 50, 200)}

\* a one-row matrix has variance 0 in every dimension
PossibleVariances(rows) == IF rows = 1 THEN {Uniform(0)} ELSE VarProfiles

\* (variant: one threshold decides both the skipping and the discarding)
selected_one_threshold(variances) ==
    IF \A i \in 1..NumCep : variances[i] < VarianceThresholdVal
    THEN 1..NumCep
    ELSE {i \in 1..NumCep : variances[i] >= VarianceThresholdVal}

\* (variant: the selector's threshold is the one of the skip test)
selected_skip_threshold(variances) ==
    IF \A i \in 1..NumCep : variances[i] < SkipFilterBelow
    THEN 1..NumCep
    ELSE {i \in 1..NumCep : variances[i] > SkipFilterBelow}

\* lines 69-78: the cepstral dimensions left by the variance filter.  The
\* filter is skipped when np.all(feature_variances < 1e-4); otherwise
\* VarianceThreshold(threshold=1e-5) keeps the dimensions whose variance is
\* greater than the threshold
selected(variances) ==
    IF \A i \in 1..NumCep : variances[i] < SkipFilterBelow
    THEN 1..NumCep
    ELSE {i \in 1..NumCep : variances[i] > VarianceThresholdVal}

\* the number of dimensions left
retained(variances) == Cardinality(selected(variances))

\* (variant: central differences everywhere, the edge rows differenced
\* against the row clamped at the edge)
calculate_delta_clamped(features) ==
    [i \in 1..Len(features) |->
        [c \in 1..Len(features[i]) |->
            (features[IF i < Len(features) THEN i + 1 ELSE i][c]
             - features[IF i > 1 THEN i - 1 ELSE i][c]) \div 2]]

\* calculate_delta, lines 18-29.  A matrix is the sequence of its rows;
\* entries are in quarters so that the halvings of two applications are
\* exact
calculate_delta(features) ==
    [i \in 1..Len(features) |->
        IF i = 1 THEN features[i]
        ELSE IF i = Len(features) THEN features[i]
        ELSE [c \in 1..Len(features[i]) |->
                 (features[i + 1][c] - features[i - 1][c]) \div 2]]

\* The value extract_features returns and the branch that produced it:
\* "empty_check" is the `len(speech_frames) == 0` return, "except" the
\* handler of the enclosing try, "features" the normal end, a matrix of
\* rows x cols with cols = 3 * retained (base, delta, delta-delta).
extract_features(audio, dtype, rate, variances) ==
    LET speech == detect_speech(audio, dtype, rate)
    IN  IF speech.kind = "raise"
        THEN [value |-> "None", via |-> "except", rows |-> 0, cols |-> 0]
        ELSE IF Len(speech.out) = 0
        THEN [value |-> "None", via |-> "empty_check", rows |-> 0, cols |-> 0]
        ELSE [value |-> "features", via |-> "features",
              rows |-> mfcc_frames(Len(speech.out), rate),
              cols |-> 3 * retained(variances)]

\* number of rows extract_features would produce (0 when VAD raises)
FeatureRows(audio, dtype, rate) ==
    LET speech == detect_speech(audio, dtype, rate)
    IN  IF speech.kind = "raise" THEN 0 ELSE mfcc_frames(Len(speech.out), rate)

----------------------------------------------------------------------------
(* numpy: sorting and percentiles *)

\* (variant: the list is used in the order given)
np_sort_none(a) == a

\* ascending sort (np.percentile orders the data before it interpolates)
RECURSIVE Insert(_, _)
Insert(x, q) ==
    IF q = <<>> THEN <<x>>
    ELSE IF x <= Head(q) THEN <<x>> \o q
    ELSE <<Head(q)>> \o Insert(x, Tail(q))

RECURSIVE np_sort(_)
np_sort(a) == IF a = <<>> THEN <<>> ELSE Insert(Head(a), np_sort(Tail(a)))

\* np.percentile(a, q), method 'linear', in hundredths: the virtual index
\* (n - 1) * q / 100 into the sorted data, interpolated linearly between
\* its two neighbours
np_percentile(a, q) ==
    LET srt == np_sort(a)
        n == Len(a)
        lo == ((n - 1) * q) \div 100
        g == ((n - 1) * q) % 100
        hi == IF lo + 1 < n THEN lo + 1 ELSE lo
    IN  100 * srt[lo + 1] + g * (srt[hi + 1] - srt[lo + 1])

----------------------------------------------------------------------------
(* voiceauth/feature_extraction.py lines 69-91: from the cepstral matrix *)
(* to the combined feature matrix                                        *)

\* the k-th kept column, in ascending order (get_support keeps the order)
kth(sel, k) == CHOOSE i \in sel : Cardinality({j \in sel : j < i}) = k - 1

\* selector.fit_transform(mfcc_feat): the columns of the kept dimensions
transform(m, sel) ==
    [r \in 1..Len(m) |-> [k \in 1..Cardinality(sel) |-> m[r][kth(sel, k)]]]

Column(m, c) == [r \in 1..Len(m) |-> m[r][c]]

\* RobustScaler().fit_transform: every column is centred on its median and
\* divided by its interquartile range (by 1 when that range is 0).  The
\* scaled entries are in twelfths, on which the quotients of the matrices
\* enumerated here are exact.
robust_scale(m) ==
    [r \in 1..Len(m) |->
        [c \in 1..Len(m[r]) |->
            LET col == Column(m, c)
                center == np_percentile(col, 50)
                iqr == np_percentile(col, 75) - np_percentile(col, 25)
                scale == IF iqr = 0 THEN 100 ELSE iqr
            IN  (12 * (100 * m[r][c] - center)) \div scale]]

\* np.hstack((mfcc_feat, delta_feat, delta2_feat))
hstack(a, b, c) == [r \in 1..Len(a) |-> a[r] \o b[r] \o c[r]]

\* lines 69-91 on the cepstral matrix mfcc_feat whose column variances are
\* `variances`.  VarianceThreshold.fit raises ValueError when no column
\* meets the threshold; the enclosing handler then returns None.
combined_features(mfcc_feat, variances) ==
    LET sel == selected(variances)
    IN  IF sel = {}
        THEN [kind |-> "None", via |-> "except",
              error |-> "No feature in X meets the variance threshold"]
        ELSE LET scaled == robust_scale(transform(mfcc_feat, sel))
                 delta_feat == calculate_delta(scaled)
                 delta2_feat == calculate_delta(delta_feat)
             IN  [kind |-> "features", via |-> "features", kept |-> sel,
                  matrix |-> hstack(scaled, delta_feat, delta2_feat)]

\* a cepstral matrix of the given number of frames (its values stand for any
\* content with the variances under study; one frame has variance 0)
CepstralMatrix(rows) == [r \in 1..rows |-> [c \in 1..NumCep |-> 8 * c * r]]

----------------------------------------------------------------------------
(* Specification of the variance filter and of the deltas on their own *)

MaxRows == 3                      \* most frames of a feature matrix enumerated
MaxLowDims == 2                   \* most dimensions given the lower variance
EntryVals == {0, 4, 8}            \* entries, in quarters
VarVals == {0, 9, 10, 11, 99, 100}   \* variances, in 1e-6

\* matrices of two columns (calculate_delta treats every column alike)
MatrixRows == [1..2 -> EntryVals]
Matrices == UNION {[1..n -> MatrixRows] : n \in 1..MaxRows}
FilterProfiles == {WithLow(k, lo, hi) : k \in 0..MaxLowDims, lo \in VarVals, hi \in VarVals}

\* one call under study: a matrix for calculate_delta, a variance vector
\* for the filter
FxInit ==
    /\ fxIn \in [matrix : Matrices, variances : {Uniform(0)}]
                \cup [matrix : {<<<<0, 0>>>>}, variances : FilterProfiles]
    /\ deltaOut = NotRun
    /\ keptOut = NotRun
    /\ combOut = NotRun

\* lines 69-78
RunVarianceFilter ==
    /\ keptOut = NotRun
    /\ keptOut' = [skipped |-> \A i \in 1..NumCep : fxIn.variances[i] < SkipFilterBelow,
                   kept |-> selected(fxIn.variances)]
    /\ UNCHANGED <<fxIn, deltaOut, combOut>>
    /\ UNCHANGED <<vadVars, batchVars, sysVars, loginVars, poolVars, calVars, trainVars>>

\* lines 85-86: delta_feat = calculate_delta(mfcc_feat);
\* delta2_feat = calculate_delta(delta_feat)
RunDeltas ==
    /\ deltaOut = NotRun
    /\ deltaOut' = [delta |-> calculate_delta(fxIn.matrix),
                    delta2 |-> calculate_delta(calculate_delta(fxIn.matrix))]
    /\ UNCHANGED <<fxIn, keptOut, combOut>>
    /\ UNCHANGED <<vadVars, batchVars, sysVars, loginVars, poolVars, calVars, trainVars>>

\* lines 69-91 on a cepstral matrix with the variances under study: of as
\* many frames as the matrix under study when the variances are all zero,
\* of two or more frames otherwise
RunCombine ==
    /\ combOut = NotRun
    /\ \E rows \in (IF fxIn.variances = Uniform(0) THEN {Len(fxIn.matrix)} ELSE 2..MaxRows) :
          combOut' = [rows |-> rows,
                      result |-> combined_features(CepstralMatrix(rows), fxIn.variances)]
    /\ UNCHANGED <<fxIn, deltaOut, keptOut>>
    /\ UNCHANGED <<vadVars, batchVars, sysVars, loginVars, poolVars, calVars, trainVars>>

FxNext == RunVarianceFilter \/ RunDeltas \/ RunCombine

SameShape(a, b) == Len(a) = Len(b) /\ \A i \in DOMAIN a : Len(a[i]) = Len(b[i])

\* the claim of C13 for one application: out is the delta of in
EdgeCopyingDelta(in, out) ==
    /\ SameShape(in, out)
    /\ out[1] = in[1]
    /\ out[Len(in)] = in[Len(in)]
    /\ \A i \in 2..(Len(in) - 1) : \A c \in DOMAIN in[i] :
          2 * out[i][c] = in[i + 1][c] - in[i - 1][c]

\* C13: for every feature matrix with at least one frame the delta has the
\* shape of its input, its first and last rows equal the input's, and an
\* interior row i is (input[i+1] - input[i-1]) / 2; the delta-delta relates
\* to the delta in the same way, so at the first and the last frame it
\* equals the first delta.
C13_DeltaCopiesBoundaryRows ==
    deltaOut # NotRun =>
        /\ EdgeCopyingDelta(fxIn.matrix, deltaOut.delta)
        /\ EdgeCopyingDelta(deltaOut.delta, deltaOut.delta2)

\* deltas of a matrix of three frames whose interior delta is not zero and
\* whose first and last frames are neither zero nor equal
C13_Witness ==
    /\ deltaOut # NotRun
    /\ Len(fxIn.matrix) = 3
    /\ deltaOut.delta[2] # <<0, 0>>
    /\ deltaOut.delta2[1] = fxIn.matrix[1] /\ fxIn.matrix[1] # <<0, 0>>
    /\ deltaOut.delta2[3] = fxIn.matrix[3] /\ fxIn.matrix[3] # fxIn.matrix[1]

\* C14 as stated: one threshold, 1e-5.  The filter is skipped exactly when
\* all dimensions have variance below 1e-5, and otherwise a dimension is
\* discarded exactly when its variance is below 1e-5.
C14_OneThresholdVarianceFilter ==
    keptOut # NotRun =>
        LET allBelow == \A i \in 1..NumCep : fxIn.variances[i] < 10
        IN  /\ keptOut.skipped <=> allBelow
            /\ \A i \in 1..NumCep :
                  i \notin keptOut.kept <=> (fxIn.variances[i] < 10 /\ ~allBelow)

\* C14 amended: two thresholds.  The filter is skipped (all dimensions
\* kept) exactly when all dimensions have variance below 1e-4; otherwise a
\* dimension is discarded exactly when its variance is at most 1e-5.
C14_TwoThresholdVarianceFilter ==
    keptOut # NotRun =>
        LET allLow == \A i \in 1..NumCep : fxIn.variances[i] < 100
        IN  /\ keptOut.skipped <=> allLow
            /\ keptOut.skipped => keptOut.kept = 1..NumCep
            /\ \A i \in 1..NumCep :
                  i \notin keptOut.kept <=> (~allLow /\ fxIn.variances[i] <= 10)

\* the filter was skipped for an utterance with a dimension of variance
\* below 1e-5 next to dimensions of variance between 1e-5 and 1e-4
C14_Witness ==
    /\ keptOut # NotRun
    /\ keptOut.skipped
    /\ keptOut.kept = 1..NumCep
    /\ fxIn.variances[1] < 10
    /\ fxIn.variances[NumCep] > 10

\* the variance filter is applied (it is not skipped) to these variances
FilterApplied(variances) == \E i \in 1..NumCep : variances[i] >= 100

\* C24: the variance filter never removes every coefficient dimension:
\* whenever it is applied at least one dimension is retained, so
\* extract_features returns a matrix, the retained count is at least 1, and
\* every frame of the matrix has exactly 3 x (retained count) entries.
C24_FilterKeepsADimension ==
    /\ (keptOut # NotRun /\ ~keptOut.skipped) => Cardinality(keptOut.kept) >= 1
    /\ combOut # NotRun =>
          /\ combOut.result.kind = "features"
          /\ Cardinality(combOut.result.kept) >= 1
          /\ Len(combOut.result.matrix) = combOut.rows
          /\ \A r \in DOMAIN combOut.result.matrix :
                Len(combOut.result.matrix[r]) = 3 * Cardinality(combOut.result.kept)
          /\ FilterApplied(fxIn.variances) =>
                \E i \in combOut.result.kept : fxIn.variances[i] >= 100

\* the filter was applied to three frames and kept only some dimensions
C24_Witness ==
    /\ combOut # NotRun /\ combOut.rows = 3
    /\ FilterApplied(fxIn.variances)
    /\ combOut.result.kind = "features"
    /\ Cardinality(combOut.result.kept) = NumCep - 2
    /\ Len(combOut.result.matrix[2]) = 3 * (NumCep - 2)

----------------------------------------------------------------------------
(* Specification of the pure VAD / feature front end *)

Buffers == UNION {[1..n -> SampleVals] : n \in 0..MaxLen}

VadInit ==
    /\ vadIn \in [dtype : DTypes, rate : Rates, audio : Buffers]
    /\ vadOut = NotRun
    /\ featOut = NotRun

RunDetectSpeech ==
    /\ vadOut = NotRun
    /\ vadOut' = detect_speech(vadIn.audio, vadIn.dtype, vadIn.rate)
    /\ UNCHANGED <<vadIn, featOut, batchVars, sysVars, moreVars>>

RunExtractFeatures ==
    /\ featOut = NotRun
    /\ \E v \in PossibleVariances(FeatureRows(vadIn.audio, vadIn.dtype, vadIn.rate)) :
          featOut' = extract_features(vadIn.audio, vadIn.dtype, vadIn.rate, v)
    /\ UNCHANGED <<vadIn, vadOut, batchVars, sysVars, moreVars>>

VadNext == RunDetectSpeech \/ RunExtractFeatures

----------------------------------------------------------------------------
(* Claims about detect_speech and extract_features, under SpecVAD *)

\* The mathematical energy of a frame (times its length): the sum of the
\* squares of its sample values, in unbounded arithmetic.
RECURSIVE TrueSumSquares(_)
TrueSumSquares(frame) ==
    IF frame = <<>> THEN 0 ELSE Head(frame) * Head(frame) + TrueSumSquares(Tail(frame))

\* The frames the claim speaks of: consecutive blocks of fs samples, the
\* incomplete last block left out.
ClaimFrameCount(audio, fs) == CHOOSE n \in 0..Len(audio) : n * fs <= Len(audio) /\ (n + 1) * fs > Len(audio)
ClaimFrame(audio, fs, i) == [j \in 1..fs |-> audio[(i - 1) * fs + j]]

\* frame i is speech: its energy over the largest frame energy exceeds 0.01
ClaimIsSpeech(audio, fs, i) ==
    \E m \in 1..ClaimFrameCount(audio, fs) :
        /\ \A k \in 1..ClaimFrameCount(audio, fs) :
              TrueSumSquares(ClaimFrame(audio, fs, k)) <= TrueSumSquares(ClaimFrame(audio, fs, m))
        /\ TrueSumSquares(ClaimFrame(audio, fs, m)) > 0
        /\ 100 * TrueSumSquares(ClaimFrame(audio, fs, i)) > TrueSumSquares(ClaimFrame(audio, fs, m))

RECURSIVE ClaimSpeech(_, _, _)
ClaimSpeech(audio, fs, i) ==
    IF i > ClaimFrameCount(audio, fs) THEN <<>>
    ELSE (IF ClaimIsSpeech(audio, fs, i) THEN ClaimFrame(audio, fs, i) ELSE <<>>)
         \o ClaimSpeech(audio, fs, i + 1)

ClaimFrameSize(rate) == (rate * 2) \div 100

\* C7: detect_speech returns exactly the concatenation, in order, of the
\* complete frames whose energy over the maximum frame energy is strictly
\* greater than min_speech_energy (for every input: every dtype, every
\* length, silent or not).
C7_ReturnsExactlySpeechFrames ==
    vadOut # NotRun =>
        /\ vadOut.kind = "return"
        /\ vadOut.out = ClaimSpeech(vadIn.audio, ClaimFrameSize(vadIn.rate), 1)

\* no frame of the input is speech: all complete frames are silent, or
\* there is no complete frame
NoSpeechInput ==
    \A i \in 1..ClaimFrameCount(vadIn.audio, ClaimFrameSize(vadIn.rate)) :
        TrueSumSquares(ClaimFrame(vadIn.audio, ClaimFrameSize(vadIn.rate), i)) = 0

\* C8: when no frame is speech, detect_speech does not divide by a zero
\* maximum energy and does not raise, and extract_features returns its
\* failure value through the empty-buffer check, not through the handler
\* of a raised exception.
C8_NoSpeechIsSignalledNotCrashed ==
    NoSpeechInput =>
        /\ vadOut # NotRun => (vadOut.kind = "return" /\ ~vadOut.zero_div)
        /\ featOut # NotRun => (featOut.value = "None" /\ featOut.via = "empty_check")

\* C9: for int16 PCM input the energy computed for every frame is the mean
\* of the squared sample values (so it is >= 0), and the frame of largest
\* true energy is the normalisation maximum.
C9_Int16EnergyIsMeanSquare ==
    (vadIn.dtype = "int16" /\ vadOut # NotRun) =>
        LET energies == FrameEnergies("int16", vadIn.audio, vadIn.rate)
            frames == Frames(vadIn.audio, vadIn.rate)
        IN  \A i \in DOMAIN energies :
                /\ energies[i] = TrueSumSquares(frames[i])
                /\ energies[i] >= 0
                /\ TrueSumSquares(frames[i]) <= MaxOf(energies)

\* the complete frames of the input whose true energy is the largest
ClaimMaxFrames(audio, fs) ==
    {m \in 1..ClaimFrameCount(audio, fs) :
        \A k \in 1..ClaimFrameCount(audio, fs) :
            TrueSumSquares(ClaimFrame(audio, fs, k)) <= TrueSumSquares(ClaimFrame(audio, fs, m))}

\* some complete frame of the input has strictly positive energy
HasPositiveFrame ==
    \E i \in 1..ClaimFrameCount(vadIn.audio, ClaimFrameSize(vadIn.rate)) :
        TrueSumSquares(ClaimFrame(vadIn.audio, ClaimFrameSize(vadIn.rate), i)) > 0

\* np.max(np.abs(speech_frames)), the denominator of the peak normalisation
PeakAbs(out) ==
    LET abs(x) == IF x < 0 THEN -x ELSE x
    IN  CHOOSE m \in {abs(out[j]) : j \in DOMAIN out} : \A j \in DOMAIN out : abs(out[j]) <= m

\* C23: for every input with at least one complete frame of strictly
\* positive energy (min_speech_energy = 0.01 < 1), detect_speech returns a
\* non-empty buffer that contains every frame of maximum energy as one of
\* its frame-sized blocks, so the peak of the buffer, by which
\* extract_features divides, is not zero.
C23_PositiveEnergyGivesNonEmptySpeech ==
    (HasPositiveFrame /\ vadOut # NotRun) =>
        /\ vadOut.kind = "return"
        /\ Len(vadOut.out) > 0
        /\ LET fs == ClaimFrameSize(vadIn.rate)
           IN  \A m \in ClaimMaxFrames(vadIn.audio, fs) :
                  \E k \in 1..(Len(vadOut.out) \div fs) :
                      SubSeq(vadOut.out, (k - 1) * fs + 1, k * fs) = ClaimFrame(vadIn.audio, fs, m)
        /\ PeakAbs(vadOut.out) > 0

----------------------------------------------------------------------------
(* voiceauth/UBM.py and voiceauth/gmm.py: batch corpus loading *)

MaxFiles == 3                     \* longest corpus file list enumerated

\* A corpus file: whether wavfile.read succeeds, and what it then yields
\* (16 bit PCM samples at a rate) with the cepstral variances of its content.
SilentFile == [rate |-> 100, audio |-> <<0, 0>>]
ShortSpeechFile == [rate |-> 100, audio |-> <<16, 16>>]
LongSpeechFile == [rate |-> 100, audio |-> <<16, 16, 16, 16, 1, 1>>]
BatchAudios == {SilentFile, ShortSpeechFile, LongSpeechFile}

BatchFiles ==
    {[readable |-> FALSE, rate |-> 100, audio |-> <<>>, variances |-> Uniform(0)]}
    \cup {[readable |-> TRUE, rate |-> a.rate, audio |-> a.audio, variances |-> v] :
            a \in BatchAudios, v \in VarProfiles}

\* the files whose variance profile their content can have
ConsistentFile(f) ==
    \/ ~f.readable
    \/ f.variances \in PossibleVariances(FeatureRows(f.audio, "int16", f.rate))
         /\ (FeatureRows(f.audio, "int16", f.rate) = 0 => f.variances = Uniform(0))

\* process_file: None when the read raises, else what extract_features
\* returns (wavfile.read yields int16 samples for 16 bit PCM)
process_file(f) ==
    IF ~f.readable
    THEN [value |-> "None", via |-> "except", rows |-> 0, cols |-> 0]
    ELSE extract_features(f.audio, "int16", f.rate, f.variances)

\* the rows of the matrices results[i], i in keep, stacked in list order; a
\* row is named by its file and its index in the file's matrix
RECURSIVE StackRows(_, _, _)
StackRows(results, keep, i) ==
    IF i > Len(results) THEN <<>>
    ELSE (IF i \in keep THEN [r \in 1..results[i].rows |-> <<i, r>>] ELSE <<>>)
         \o StackRows(results, keep, i + 1)

EmptyPool == [kind |-> "return", pool |-> <<>>]

\* np.vstack(arrays): raises unless all arrays have the same number of columns
vstack(results, keep) ==
    IF \A i \in keep, j \in keep : results[i].cols = results[j].cols
    THEN [kind |-> "return", pool |-> StackRows(results, keep, 1)]
    ELSE [kind |-> "raise", pool |-> <<>>]

\* UBM.py load_features_from_directory, on the list of .wav files walked
ubm_load_features_from_directory(wav_files) ==
    IF wav_files = <<>> THEN EmptyPool
    ELSE LET results == [i \in 1..Len(wav_files) |-> process_file(wav_files[i])]
             keep == {i \in 1..Len(wav_files) :
                         results[i].value # "None" /\ results[i].rows * results[i].cols > 0}
         IN  IF keep = {} THEN EmptyPool ELSE vstack(results, keep)

\* gmm.py load_features_from_directory: pool.imap gives one result per file in
\* list order once the pool is exhausted
gmm_load_features_from_directory(wav_files) ==
    LET results == [i \in 1..Len(wav_files) |-> process_file(wav_files[i])]
        keep == {i \in 1..Len(wav_files) : results[i].value # "None"}
    IN  IF keep # {} THEN vstack(results, keep) ELSE EmptyPool

BatchInit ==
    /\ files \in UNION {[1..n -> {f \in BatchFiles : ConsistentFile(f)}] : n \in 0..MaxFiles}
    /\ ubmPool = NotRun
    /\ gmmPool = NotRun

RunUbmLoad ==
    /\ ubmPool = NotRun
    /\ ubmPool' = ubm_load_features_from_directory(files)
    /\ UNCHANGED <<files, gmmPool, vadVars, sysVars, moreVars>>

RunGmmLoad ==
    /\ gmmPool = NotRun
    /\ gmmPool' = gmm_load_features_from_directory(files)
    /\ UNCHANGED <<files, ubmPool, vadVars, sysVars, moreVars>>

BatchNext == RunUbmLoad \/ RunGmmLoad

\* the files of the list whose read and feature extraction both succeed
Succeeded == {i \in 1..Len(files) : process_file(files[i]).value = "features"}

RECURSIVE RowsOfSucceeded(_)
RowsOfSucceeded(i) ==
    IF i > Len(files) THEN <<>>
    ELSE (IF i \in Succeeded
          THEN [r \in 1..process_file(files[i]).rows |-> <<i, r>>] ELSE <<>>)
         \o RowsOfSucceeded(i + 1)

SkipsAndContinues(result) ==
    result # NotRun =>
        /\ result.kind = "return"
        /\ result.pool = RowsOfSucceeded(1)
        /\ (result.pool = <<>> <=> Succeeded = {})

\* C10: for every file list and every subset of failing files, batch loading
\* does not abort, pools exactly the rows of the files that succeeded, and
\* returns the empty pool only if no file succeeded (both loaders).
C10_BatchLoadSkipsAndContinues ==
    SkipsAndContinues(ubmPool) /\ SkipsAndContinues(gmmPool)

----------------------------------------------------------------------------
(* voiceauth/gmm.py load_features_from_directory, step by step: the pool *)
(* of worker processes behind pool.imap (lines 42-43) and the assembly   *)
(* of the pooled matrix (lines 46-54)                                    *)

MaxTasks == 3                     \* longest file list given to the pool
PoolWorkers == 2                  \* Pool(): worker processes

Range(q) == {q[i] : i \in DOMAIN q}

\* (variant: pool.imap_unordered, results in order of completion)
imap_unordered_next(coll, done) ==
    IF Len(done) > Len(coll) THEN done[Len(coll) + 1] ELSE 0

\* pool.imap: the task whose result the iterator yields next is the next one
\* in submission order, whatever has finished meanwhile
imap_next(coll, done) == Len(coll) + 1

\* the rows of results[j], j in keep, stacked in list order; a row is named
\* by its file (the task coll[j]) and its index in the file's matrix
RECURSIVE StackCollected(_, _, _, _)
StackCollected(results, keep, coll, j) ==
    IF j > Len(results) THEN <<>>
    ELSE (IF j \in keep THEN [r \in 1..results[j].rows |-> <<coll[j], r>>] ELSE <<>>)
         \o StackCollected(results, keep, coll, j + 1)

\* lines 46-54 on the list `results` built from the iterator: coll[j] is the
\* task whose result stands at place j
assemble(wav_files, coll) ==
    LET results == [j \in 1..Len(coll) |-> process_file(wav_files[coll[j]])]
        keep == {j \in 1..Len(coll) : results[j].value # "None"}
    IN  IF keep = {} THEN EmptyPool
        ELSE IF \A i \in keep, j \in keep : results[i].cols = results[j].cols
        THEN [kind |-> "return", pool |-> StackCollected(results, keep, coll, 1)]
        ELSE [kind |-> "raise", pool |-> <<>>]

PoolFiles ==
    {[readable |-> FALSE, rate |-> 100, audio |-> <<>>, variances |-> Uniform(0)],
     [readable |-> TRUE, rate |-> 100, audio |-> ShortSpeechFile.audio, variances |-> Uniform(0)],
     [readable |-> TRUE, rate |-> 100, audio |-> LongSpeechFile.audio, variances |-> Uniform(200)],
     [readable |-> TRUE, rate |-> 100, audio |-> LongSpeechFile.audio, variances |-> WithLow(1, 5, 200)]}

PoolInit ==
    /\ files \in UNION {[1..n -> PoolFiles] : n \in 0..MaxTasks}
    /\ ubmPool = NotRun
    /\ gmmPool = NotRun
    /\ taskStarted = 0
    /\ taskDone = <<>>
    /\ collected = <<>>
    /\ parPool = NotRun

\* a free worker takes the next task of the queue
TaskStart ==
    /\ taskStarted < Len(files)
    /\ taskStarted - Len(taskDone) < PoolWorkers
    /\ taskStarted' = taskStarted + 1
    /\ UNCHANGED <<taskDone, collected, parPool, batchVars, vadVars, sysVars, loginVars,
                   fxVars, calVars, trainVars>>

\* a worker finishes process_file on its task
TaskFinish(i) ==
    /\ i <= taskStarted
    /\ i \notin Range(taskDone)
    /\ taskDone' = Append(taskDone, i)
    /\ UNCHANGED <<taskStarted, collected, parPool, batchVars, vadVars, sysVars, loginVars,
                   fxVars, calVars, trainVars>>

\* list(pool.imap(...)) takes the next result from the iterator
ImapNext ==
    /\ parPool = NotRun
    /\ imap_next(collected, taskDone) \in Range(taskDone) \ Range(collected)
    /\ collected' = Append(collected, imap_next(collected, taskDone))
    /\ UNCHANGED <<taskStarted, taskDone, parPool, batchVars, vadVars, sysVars, loginVars,
                   fxVars, calVars, trainVars>>

\* the iterator is exhausted: lines 46-54 filter and stack the list
Assemble ==
    /\ parPool = NotRun
    /\ Len(collected) = Len(files)
    /\ parPool' = assemble(files, collected)
    /\ UNCHANGED <<taskStarted, taskDone, collected, batchVars, vadVars, sysVars, loginVars,
                   fxVars, calVars, trainVars>>

PoolNext ==
    \/ TaskStart
    \/ \E i \in 1..MaxTasks : TaskFinish(i)
    \/ ImapNext
    \/ Assemble

\* C11: the pooled training set is assembled only after every worker task
\* has completed, and it is the value determined by the file list alone
\* (content and row order), whatever the order of completion.
C11_PoolIndependentOfCompletionOrder ==
    parPool # NotRun =>
        /\ Range(taskDone) = 1..Len(files)
        /\ parPool = gmm_load_features_from_directory(files)

\* a pool of rows of two files was assembled after the second file's task
\* finished before the first file's
C11_Witness ==
    /\ parPool # NotRun
    /\ parPool.kind = "return"
    /\ \E a, b \in DOMAIN parPool.pool : parPool.pool[a][1] = 1 /\ parPool.pool[b][1] = 2
    /\ taskDone[1] = 2

----------------------------------------------------------------------------
(* voiceauth/speaker_model.py and voice_auth.py: the decision routines *)

\* A threshold is a float: a number (in hundredths) or nan.
Num(t) == [isnan |-> FALSE, v |-> t]
NaN == [isnan |-> TRUE, v |-> 0]

\* SpeakerVerification.verify_speaker: is_same_speaker = similarity > threshold
\* (a comparison with nan is False)
sv_verify_speaker(similarity, threshold) ==
    ~threshold.isnan /\ similarity > threshold.v

\* authenticate_user: return score >= threshold
authenticate_user(score, threshold) ==
    ~threshold.isnan /\ score >= threshold.v

----------------------------------------------------------------------------
(* The threshold record {username}_threshold.json (voice_verifier.py lines *)
(* 72-73 and 96-97; gmm.py lines 131-134)                                  *)

\* float.__repr__ as json.dump applies it: a finite float is written as its
\* decimal digits (sign, integer part, two decimals on this grid); nan is
\* written as the bare word NaN, which is no JSON number
float_repr(x) ==
    IF x.isnan THEN [kind |-> "constant", text |-> "NaN"]
    ELSE [kind |-> "number", neg |-> x.v < 0,
          int |-> (IF x.v < 0 THEN -x.v ELSE x.v) \div 100,
          frac |-> (IF x.v < 0 THEN -x.v ELSE x.v) % 100]

\* json.dump({'threshold': threshold}, f): the file text, a sequence of
\* key / value members
json_dump(threshold) == <<[key |-> "threshold", value |-> float_repr(threshold)]>>

\* the float the json decoder makes of a value token (parse_float for
\* numbers, parse_constant for NaN)
parse_value(token) ==
    IF token.kind = "constant" THEN NaN
    ELSE Num((IF token.neg THEN -1 ELSE 1) * (token.int * 100 + token.frac))

\* json.load(f)['threshold']
json_load_threshold(text) ==
    parse_value(text[CHOOSE i \in DOMAIN text : text[i].key = "threshold"].value)

----------------------------------------------------------------------------
(* voiceauth/gmm.py: calculate_threshold and save_gmm_model.  Scores are *)
(* whole log-likelihood units; thresholds are floats in hundredths.      *)

MaxScores == 4                    \* longest score list enumerated
ScoreVals == {-15, -12, -9, -8}

Percentile == 90                  \* np.percentile(log_likelihoods, 90)
Margin == 600                     \* threshold -= 6.0, in hundredths

\* the regression fixture of enrollment log-likelihoods
Fixture == <<-10, -12, -9, -15, -8, -11, -13, -9, -10, -14>>

\* lines 59-71 on the scores gmm_model.score gave for the feature sets
calculate_threshold(log_likelihoods) ==
    [kind |-> "return",
     threshold |-> Num(np_percentile(log_likelihoods, Percentile) - Margin),
     log_likelihoods |-> log_likelihoods]

ScoreLists == UNION {[1..n -> ScoreVals] : n \in 1..MaxScores} \cup {Fixture}

\* A path is the sequence of its characters.
GmmSuffix == <<".", "g", "m", "m">>
ThresholdSuffix ==
    <<"_", "t", "h", "r", "e", "s", "h", "o", "l", "d", ".", "j", "s", "o", "n">>

\* str.replace(old, new): every non-overlapping occurrence of old, found
\* from the left, is replaced; a string without old is returned as it is
RECURSIVE str_replace(_, _, _)
str_replace(str, old, new) ==
    IF Len(str) < Len(old) THEN str
    ELSE IF SubSeq(str, 1, Len(old)) = old
    THEN new \o str_replace(SubSeq(str, Len(old) + 1, Len(str)), old, new)
    ELSE <<Head(str)>> \o str_replace(Tail(str), old, new)

\* line 130: model_path.replace('.gmm', '_threshold.json')
threshold_path(model_path) == str_replace(model_path, GmmSuffix, ThresholdSuffix)

\* os.path.dirname
RECURSIVE dirname(_)
dirname(path) ==
    IF path = <<>> THEN <<>>
    ELSE IF path[Len(path)] = "/" THEN SubSeq(path, 1, Len(path) - 1)
    ELSE dirname(SubSeq(path, 1, Len(path) - 1))

\* model paths: a .gmm file, the .pkl extension UBM.py gives its model, a
\* name without extension, a .gmm file in a directory named *.gmm
SavePaths ==
    {<<"a">> \o GmmSuffix,
     <<"a", ".", "p", "k", "l">>,
     <<"a">>,
     <<"d", "/", "a">> \o GmmSuffix,
     <<"d">> \o GmmSuffix \o <<"/", "a">> \o GmmSuffix}

DiskPaths == SavePaths \cup {threshold_path(p) : p \in SavePaths}

JoblibFile(model) == [present |-> TRUE, kind |-> "joblib", model |-> model]
JsonFile(text) == [present |-> TRUE, kind |-> "json", text |-> text]

CalInit ==
    /\ calIn \in ScoreLists
    /\ calOut = NotRun
    /\ recOut = NotRun
    /\ saveIn \in [model_path : SavePaths, with_threshold : BOOLEAN]
    /\ gmmDisk = [p \in DiskPaths |-> Absent]

RunCalculateThreshold ==
    /\ calOut = NotRun
    /\ calOut' = calculate_threshold(calIn)
    /\ UNCHANGED <<calIn, recOut, saveIn, gmmDisk>>
    /\ UNCHANGED <<vadVars, batchVars, sysVars, loginVars, poolVars, fxVars, trainVars>>

\* save_gmm_model(gmm_model, model_path, threshold, log_likelihoods), lines
\* 124-138: joblib.dump(gmm_model, model_path); when a threshold is given,
\* json.dump({'threshold': float(threshold)}, f) into threshold_path, which
\* open(..., 'w') creates or truncates (it fails when the directory of the
\* path does not exist).  Any exception is caught and logged (lines 137-138)
\* and what was written before it stays.
RunSaveGmmModel ==
    /\ calOut # NotRun
    /\ recOut = NotRun
    /\ \E dumpOk \in BOOLEAN, writeOk \in BOOLEAN :
          LET mp == saveIn.model_path
              tp == threshold_path(mp)
              dirs == {<<>>, dirname(mp)}
              afterDump == [gmmDisk EXCEPT ![mp] = JoblibFile("gmm_model")]
              done(kind, disk) ==
                  /\ gmmDisk' = disk
                  /\ recOut' = [kind |-> kind, model_path |-> mp, threshold_path |-> tp,
                                text |-> json_dump(calOut.threshold)]
          IN  IF ~dumpOk THEN done("error_logged", gmmDisk)
              ELSE IF ~saveIn.with_threshold THEN done("model_only", afterDump)
              ELSE IF ~writeOk \/ dirname(tp) \notin dirs THEN done("error_logged", afterDump)
              ELSE done("file", [afterDump EXCEPT ![tp] = JsonFile(json_dump(calOut.threshold))])
    /\ UNCHANGED <<calIn, calOut, saveIn>>
    /\ UNCHANGED <<vadVars, batchVars, sysVars, loginVars, poolVars, fxVars, trainVars>>

CalNext == RunCalculateThreshold \/ RunSaveGmmModel

\* the value of rank k (from 0) in the list read as a multiset
ValueAtRank(a, k) ==
    CHOOSE v \in Range(a) :
        /\ Cardinality({i \in DOMAIN a : a[i] < v}) <= k
        /\ k < Cardinality({i \in DOMAIN a : a[i] <= v})

\* the 90th percentile by linear interpolation, in hundredths
ClaimPercentile90(a) ==
    LET h == 9 * (Len(a) - 1)
        lo == h \div 10
        hi == IF lo + 1 < Len(a) THEN lo + 1 ELSE lo
    IN  10 * ((10 - (h % 10)) * ValueAtRank(a, lo) + (h % 10) * ValueAtRank(a, hi))

Swap(a, i, j) == [k \in DOMAIN a |-> IF k = i THEN a[j] ELSE IF k = j THEN a[i] ELSE a[k]]

C25_ThresholdRecordBesideModel ==
    (recOut # NotRun /\ saveIn.with_threshold) =>
        /\ recOut.threshold_path # recOut.model_path
        /\ recOut.kind = "file" =>
              /\ gmmDisk[saveIn.model_path] = JoblibFile("gmm_model")
              /\ gmmDisk[recOut.threshold_path].present
              /\ gmmDisk[recOut.threshold_path].kind = "json"
              /\ json_load_threshold(gmmDisk[recOut.threshold_path].text) = calOut.threshold

----------------------------------------------------------------------------
(* voiceauth/UBM.py train_ubm and voiceauth/gmm.py train_gmm.            *)
(*                                                                         *)
(* GaussianMixture.fit is expectation-maximisation: the parameters it     *)
(* leaves in the model are those of its last M-step, computed from the    *)
(* responsibilities of the last E-step.  The responsibilities (which      *)
(* need exp and log) are an input here; the M-step is computed exactly,   *)
(* in fractions.  A sample is a point with integer coordinates; the       *)
(* responsibilities of a sample are given in halves and sum to one.       *)

MaxTrain == 3                     \* most samples of a training corpus
MaxComponents == 2                \* largest n_components enumerated

UbmRegCovar == 1                  \* reg_covar=1e-6 (UBM.py), in 1e-6
GmmRegCovar == 1                  \* reg_covar left at sklearn's default 1e-6

Points == {<<0, 2>>, <<2, 0>>}

RECURSIVE SumSeq(_)
SumSeq(q) == IF q = <<>> THEN 0 ELSE Head(q) + SumSeq(Tail(q))

\* responsibility vectors over K components, in halves, summing to one
RespVectors(K) == {v \in [1..K -> 0..2] : SumSeq(v) = 2}

\* n_k, in halves: resp.sum(axis=0).  (sklearn adds 10 * eps to n_k, which
\* only matters where n_k is 0: the quotients below are then 0 / (10 * eps),
\* that is 0.)
Nk(resp, k) == SumSeq([i \in 1..Len(resp) |-> resp[i][k]])

\* sum of resp[i][k] * X[i][d] and of resp[i][k] * X[i][d]^2, in halves
S1(X, resp, k, d) == SumSeq([i \in 1..Len(X) |-> resp[i][k] * X[i][d]])
S2(X, resp, k, d) == SumSeq([i \in 1..Len(X) |-> resp[i][k] * X[i][d] * X[i][d]])

\* (variant: no regularisation added to the variances)
estimate_covariance_noreg(s2, s1, nk, reg) ==
    IF nk = 0 THEN [num |-> 0, den |-> 1, reg |-> 0]
    ELSE [num |-> s2 * nk - s1 * s1, den |-> nk * nk, reg |-> 0]

\* diagonal covariance entry: avg_X2 - means^2 + reg_covar, the fraction
\* num / den plus reg * 1e-6
estimate_covariance(s2, s1, nk, reg) ==
    IF nk = 0 THEN [num |-> 0, den |-> 1, reg |-> reg]
    ELSE [num |-> s2 * nk - s1 * s1, den |-> nk * nk, reg |-> reg]

\* mean entry: sum of resp * X over n_k
estimate_mean(s1, nk) ==
    IF nk = 0 THEN [num |-> 0, den |-> 1] ELSE [num |-> s1, den |-> nk]

\* the fitted model: weights_ = n_k / n_samples, means_, covariances_
m_step(X, resp, K, reg) ==
    [n_components |-> K,
     weights |-> [k \in 1..K |-> [num |-> Nk(resp, k), den |-> 2 * Len(X)]],
     means |-> [k \in 1..K |-> [d \in 1..Len(X[1]) |->
                  estimate_mean(S1(X, resp, k, d), Nk(resp, k))]],
     covariances |-> [k \in 1..K |-> [d \in 1..Len(X[1]) |->
                  estimate_covariance(S2(X, resp, k, d), S1(X, resp, k, d),
                                      Nk(resp, k), reg)]]]

TrainRaised(err) == [kind |-> "raise", error |-> err]

\* GaussianMixture.fit validates its data before the first iteration: at
\* least 2 samples and at least n_components samples
fit_rejects(X, K) == Len(X) < 2 \/ Len(X) < K

\* train_ubm(features, n_components): lines 64-83
train_ubm(features, n_components, resp) ==
    IF fit_rejects(features, n_components) THEN TrainRaised("ValueError")
    ELSE [kind |-> "model", model |-> m_step(features, resp, n_components, UbmRegCovar)]

\* train_gmm(features, ubm_model_path, n_components): lines 77-120, with the
\* responsibilities of the fit's last E-step and the scores of line 63
train_gmm(features, ubm, n_components, resp, scores) ==
    IF ubm = Absent THEN TrainRaised("FileNotFoundError")       \* line 77
    ELSE IF n_components > ubm.model.n_components
            \/ n_components > Len(ubm.model.means[1])
    THEN TrainRaised("IndexError")                              \* line 95
    ELSE IF \/ n_components # ubm.model.n_components
            \/ Len(features[1]) # Len(ubm.model.means[1])
            \/ fit_rejects(features, n_components)
    THEN TrainRaised("ValueError")                              \* line 110
    ELSE [kind |-> "model",
          model |-> m_step(features, resp, n_components, GmmRegCovar),
          threshold |-> calculate_threshold(scores).threshold,
          features |-> features, resp |-> resp]

TrainInputs ==
    UNION {[X : [1..n -> Points], resp : [1..n -> RespVectors(K)], n_components : {K}] :
              n \in 1..MaxTrain, K \in 1..MaxComponents}

TrainInit ==
    /\ trainIn \in TrainInputs
    /\ ubmFile = Absent
    /\ ubmOut = NotRun
    /\ gmmOut = NotRun

\* UBM.py __main__ lines 105-109
RunTrainUbm ==
    /\ ubmOut = NotRun
    /\ ubmOut' = train_ubm(trainIn.X, trainIn.n_components, trainIn.resp)
    /\ UNCHANGED <<trainIn, ubmFile, gmmOut, vadVars, batchVars, sysVars, loginVars, poolVars,
                   fxVars, calVars>>

\* UBM.py __main__ lines 116-120: joblib.dump(ubm_model, model_path); an
\* exception of train_ubm has ended the program before
SaveUbm ==
    /\ ubmOut # NotRun
    /\ ubmOut.kind = "model"
    /\ ubmFile = Absent
    /\ ubmFile' = [present |-> TRUE, model |-> ubmOut.model]
    /\ UNCHANGED <<trainIn, ubmOut, gmmOut, vadVars, batchVars, sysVars, loginVars, poolVars,
                   fxVars, calVars>>

\* enrollment features of two samples: every sample given wholly to
\* component 1, or shared evenly between components 1 and 2
AllToFirst(K) == [k \in 1..K |-> IF k = 1 THEN 2 ELSE 0]
SharedByTwo(K) == [k \in 1..K |-> IF K = 1 THEN 2 ELSE IF k <= 2 THEN 1 ELSE 0]
EnrollFeatures == {<<<<0, 2>>, <<0, 2>>>>, <<<<0, 2>>, <<2, 0>>>>}
EnrollResps(K) == {<<AllToFirst(K), AllToFirst(K)>>, <<SharedByTwo(K), SharedByTwo(K)>>}
EnrollScores == {<<-9, -9>>, <<-12, -9>>}

\* a call of train_gmm on the UBM file as it is
RunTrainGmm ==
    /\ gmmOut = NotRun
    /\ \E K \in 1..MaxComponents, features \in EnrollFeatures, scores \in EnrollScores :
          \E resp \in EnrollResps(K) :
              gmmOut' = train_gmm(features, ubmFile, K, resp, scores)
    /\ UNCHANGED <<trainIn, ubmFile, ubmOut, vadVars, batchVars, sysVars, loginVars, poolVars,
                   fxVars, calVars>>

TrainNext == RunTrainUbm \/ SaveUbm \/ RunTrainGmm

----------------------------------------------------------------------------
(* Claims about training and adaptation, under SpecTrain *)

\* equality of two fractions, and of two variances
RatEq(a, b) == a.num * b.den = b.num * a.den
VarEq(a, b) == RatEq(a, b) /\ a.reg = b.reg

\* the weights of the model sum to 1 within 1e-6
WeightsSumToOne(m) ==
    LET nums == SumSeq([k \in 1..m.n_components |-> m.weights[k].num])
        den == m.weights[1].den
    IN  /\ \A k \in 1..m.n_components : m.weights[k].den = den
        /\ 1000000 * (nums - den) <= den
        /\ 1000000 * (den - nums) <= den

\* every variance entry is at least epsilon = 1e-6
VariancesFloored(m) ==
    \A k \in 1..m.n_components : \A d \in DOMAIN m.covariances[k] :
        LET c == m.covariances[k][d]
        IN  1000000 * c.num + c.reg * c.den >= 1 * c.den

\* C15: every model train_ubm or train_gmm produces has weights summing to
\* 1 within 1e-6 and every variance entry at least epsilon (1e-6).
C15_TrainedModelsAreNormalised ==
    /\ (ubmOut # NotRun /\ ubmOut.kind = "model") =>
          (WeightsSumToOne(ubmOut.model) /\ VariancesFloored(ubmOut.model))
    /\ (gmmOut # NotRun /\ gmmOut.kind = "model") =>
          (WeightsSumToOne(gmmOut.model) /\ VariancesFloored(gmmOut.model))

\* a UBM with a component that received no responsibility (its variance is
\* the bare regularisation) was trained, and a speaker model as well
C15_Witness ==
    /\ ubmOut # NotRun /\ ubmOut.kind = "model"
    /\ \E k \in 1..ubmOut.model.n_components : ubmOut.model.weights[k].num = 0
    /\ gmmOut # NotRun /\ gmmOut.kind = "model"

\* the number of mean and variance entries in which model m differs from
\* the UBM u (a distance between their parameters)
ParameterDistance(m, u) ==
    Cardinality({kd \in (1..m.n_components) \X DOMAIN m.means[1] :
                    ~RatEq(m.means[kd[1]][kd[2]], u.means[kd[1]][kd[2]])})
    + Cardinality({kd \in (1..m.n_components) \X DOMAIN m.means[1] :
                    ~VarEq(m.covariances[kd[1]][kd[2]], u.covariances[kd[1]][kd[2]])})

RelevanceFactors == {4, 16}

\* the model adaptation produces under relevance factor r: train_gmm takes
\* no relevance factor, what it returns is gmmOut for every r
AdaptedWith(r) == gmmOut.model

\* C16: a higher relevance factor gives an adapted model strictly closer to
\* the UBM than a lower one on the same data, and a component that gets no
\* responsibility from the enrollment data keeps the UBM's mean and
\* variance.
C16_AdaptationIsMAP ==
    (gmmOut # NotRun /\ gmmOut.kind = "model") =>
        /\ \A lo, hi \in RelevanceFactors :
              lo < hi => ParameterDistance(AdaptedWith(hi), ubmFile.model)
                           < ParameterDistance(AdaptedWith(lo), ubmFile.model)
        /\ \A k \in 1..gmmOut.model.n_components :
              Nk(gmmOut.resp, k) = 0 =>
                  \A d \in DOMAIN gmmOut.model.means[k] :
                      /\ RatEq(gmmOut.model.means[k][d], ubmFile.model.means[k][d])
                      /\ VarEq(gmmOut.model.covariances[k][d],
                               ubmFile.model.covariances[k][d])

\* C17: when the pooled sample count is below K x D (the multiple 1, the
\* least a small multiple can be), train_ubm fails and produces no model.
C17_TooFewSamplesFailsTraining ==
    (ubmOut # NotRun /\ Len(trainIn.X) < trainIn.n_components * Len(trainIn.X[1])) =>
        /\ ubmOut.kind = "raise"
        /\ ubmFile = Absent

----------------------------------------------------------------------------
(* voiceauth/voice_verifier.py: VoiceVerifier, one instance per process, *)
(* and the model directory on disk that all instances share              *)

MaxRuns == 2                      \* enrollment runs started in one behaviour
MaxSamples == 2                   \* most .wav files in an enrollment directory

Procs == {"p1", "p2"}
Users == {"alice", "bob"}         \* usernames given to verify_speaker
EnrollUsers == {"alice"}          \* usernames that sign up or retrain

SampleRate == 16000               \* detect_speech(..., 16000)
DefaultThreshold == 70            \* self.thresholds.get(username, 0.7)
AuthDefaultThreshold == 82        \* authenticate_user(..., threshold=0.82)

Sims == {50, 60, 70}              \* similarity scores the encoder can give
ThrVals == {60}                   \* values mean - std of similarities can take

NoError == "(no error key)"
NoRet == [op |-> "none"]
NoCall == [user |-> "-", run |-> 0, n |-> 0]

\* An embedding is named by the enrollment run whose audio it was computed
\* from; a threshold held in memory carries its value and (history) its
\* run; the threshold file carries its text and (history) its run.
Embedding(r) == [present |-> TRUE, run |-> r]
ThresholdOf(t, r) == [present |-> TRUE, threshold |-> t, run |-> r]
ThresholdFile(text, r) == [present |-> TRUE, text |-> text, run |-> r]

\* Audio clips: a sample file or a test recording.  "missing" is a path
\* load_audio finds no file at.  "ndarray" is a clip load_audio returns as a
\* numpy array, which is what librosa.load gives: the `.numpy()` the callers
\* apply to it (lines 42, 101) raises AttributeError.  The other kinds are
\* clips whose waveform object gives its samples as `waveform.numpy()[0]`.
Rep(x, n) == [i \in 1..n |-> x]
ClipKinds == {"speech", "silence", "short", "missing", "ndarray"}
ClipAudio ==
    [k \in ClipKinds |->
        CASE k = "speech" -> Rep(100, 320) \o Rep(1, 320) \o Rep(100, 320)
          [] k = "silence" -> Rep(0, 640)
          [] k = "short" -> Rep(100, 100)
          [] k = "missing" -> <<>>
          [] k = "ndarray" -> <<>>]

\* detect_speech(waveform.numpy()[0], 16000) for each clip (float samples)
ClipVAD == [k \in ClipKinds |-> detect_speech(ClipAudio[k], "float", SampleRate)]

LoadErrors == {"FileNotFoundError", "AttributeError", "ValueError"}

\* What lines 100-104 (and 39-44) do with one clip: the exception they end
\* in, an empty speech signal, or a speech signal
ClipOutcome(k) ==
    IF k = "missing" THEN "FileNotFoundError"
    ELSE IF k = "ndarray" THEN "AttributeError"
    ELSE IF ClipVAD[k].kind = "raise" THEN "ValueError"
    ELSE IF Len(ClipVAD[k].out) = 0 THEN "empty"
    ELSE "speech"

Dirs == UNION {[1..n -> ClipKinds] : n \in 0..MaxSamples}

\* lines 35-44: the exception the loading loop ends in, or "" 
LoadLoopError(dir) ==
    IF \E i \in DOMAIN dir : ClipOutcome(dir[i]) \in LoadErrors
    THEN LET i == CHOOSE j \in DOMAIN dir :
                    /\ ClipOutcome(dir[j]) \in LoadErrors
                    /\ \A k \in 1..(j - 1) : ClipOutcome(dir[k]) \notin LoadErrors
         IN  ClipOutcome(dir[i])
    ELSE ""

\* len(waveforms) after the loop
Waveforms(dir) == Cardinality({i \in DOMAIN dir : ClipOutcome(dir[i]) = "speech"})

\* (variant: the handler catches ValueError only, other exceptions propagate)
verify_except_ValueErrorOnly(e, u) ==
    [op |-> "verify", raised |-> e # "ValueError", verified |-> FALSE, error |-> e,
     scored |-> FALSE, confidence |-> 0, threshold |-> NaN, failure |-> e, user |-> u]

\* the except clauses: `except Exception` returns a value for every exception
enroll_except(e, u, r) ==
    [op |-> "enroll", raised |-> FALSE, value |-> FALSE, failure |-> e, user |-> u, run |-> r]
verify_except(e, u) ==
    [op |-> "verify", raised |-> FALSE, verified |-> FALSE, error |-> e,
     scored |-> FALSE, confidence |-> 0, threshold |-> NaN, failure |-> e, user |-> u]

EnrollReturn(v, why, u, r) ==
    [op |-> "enroll", raised |-> FALSE, value |-> v, failure |-> why, user |-> u, run |-> r]
VerifyError(msg, u) ==
    [op |-> "verify", raised |-> FALSE, verified |-> FALSE, error |-> msg,
     scored |-> FALSE, confidence |-> 0, threshold |-> NaN, failure |-> msg, user |-> u]
VerifyResult(is_same, sim, thr, u) ==
    [op |-> "verify", raised |-> FALSE, verified |-> is_same, error |-> NoError,
     scored |-> TRUE, confidence |-> sim, threshold |-> thr, failure |-> "", user |-> u]

\* (variant: the model is reloaded from disk on every call)
NeedsLoad_Always(p, u) == TRUE

\* (variant: only the embedding file is tested)
ModelOnDisk_EmbeddingOnly(u) == embFile[u] # Absent

\* line 87: username not in self.enrolled_speakers
NeedsLoad(p, u) == enrolled_speakers[p][u] = Absent

\* line 92: os.path.exists(embedding_path) and os.path.exists(threshold_path)
ModelOnDisk(u) == embFile[u] # Absent /\ thrFile[u] # Absent

\* line 111: self.thresholds.get(username, 0.7)
ThresholdUsed(p, u) ==
    IF thresholds[p][u] # Absent THEN thresholds[p][u].threshold ELSE Num(DefaultThreshold)

\* line 68: float(np.mean(similarities) - np.std(similarities)); with one
\* waveform there is no pair, the list is empty and the value is nan
ThresholdValues(n) == IF n * (n - 1) = 0 THEN {NaN} ELSE {Num(t) : t \in ThrVals}

Finish(p, result) ==
    /\ pc' = [pc EXCEPT ![p] = "idle"]
    /\ call' = [call EXCEPT ![p] = NoCall]
    /\ ret' = result

SysInit ==
    /\ embFile = [u \in Users |-> Absent]
    /\ thrFile = [u \in Users |-> Absent]
    /\ enrolled_speakers = [p \in Procs |-> [u \in Users |-> Absent]]
    /\ thresholds = [p \in Procs |-> [u \in Users |-> Absent]]
    /\ pc = [p \in Procs |-> "idle"]
    /\ call = [p \in Procs |-> NoCall]
    /\ ret = NoRet
    /\ runs = 0

\* VoiceVerifier(): main.py builds a fresh instance for every command
NewInstance(p) ==
    /\ pc[p] = "idle"
    /\ enrolled_speakers' = [enrolled_speakers EXCEPT ![p] = [u \in Users |-> Absent]]
    /\ thresholds' = [thresholds EXCEPT ![p] = [u \in Users |-> Absent]]
    /\ ret' = NoRet
    /\ UNCHANGED <<embFile, thrFile, pc, call, runs, vadVars, batchVars, moreVars>>

\* enroll_speaker lines 33-51: load and VAD every sample, mean embedding
EnrollStart(p, u) ==
    /\ pc[p] = "idle"
    /\ runs < MaxRuns
    /\ runs' = runs + 1
    /\ \E dir \in Dirs :
          LET r == runs + 1
              fail(res) == pc' = pc /\ call' = call /\ ret' = res
          IN  IF LoadLoopError(dir) # "" THEN fail(enroll_except(LoadLoopError(dir), u, r))
              ELSE IF Waveforms(dir) = 0
              THEN fail(EnrollReturn(FALSE, "No valid audio samples", u, r))
              ELSE \E encoderOk \in BOOLEAN :
                     IF ~encoderOk THEN fail(enroll_except("RuntimeError", u, r))
                     ELSE /\ pc' = [pc EXCEPT ![p] = "e_save_emb"]
                          /\ call' = [call EXCEPT ![p] =
                                        [user |-> u, run |-> r, n |-> Waveforms(dir)]]
                          /\ ret' = NoRet
    /\ UNCHANGED <<embFile, thrFile, enrolled_speakers, thresholds, vadVars, batchVars, moreVars>>

\* lines 54-55: torch.save(embedding, path); self.enrolled_speakers[u] = embedding
EnrollSaveEmbedding(p) ==
    /\ pc[p] = "e_save_emb"
    /\ \E ok \in BOOLEAN :
          IF ok
          THEN /\ embFile' = [embFile EXCEPT ![call[p].user] = Embedding(call[p].run)]
               /\ enrolled_speakers' =
                     [enrolled_speakers EXCEPT ![p][call[p].user] = Embedding(call[p].run)]
               /\ pc' = [pc EXCEPT ![p] = "e_threshold"]
               /\ ret' = NoRet
               /\ UNCHANGED call
          ELSE /\ Finish(p, enroll_except("OSError", call[p].user, call[p].run))
               /\ UNCHANGED <<embFile, enrolled_speakers>>
    /\ UNCHANGED <<thrFile, thresholds, runs, vadVars, batchVars, moreVars>>

\* lines 58-69: pairwise similarities, threshold = mean - std, kept in memory
EnrollComputeThreshold(p) ==
    /\ pc[p] = "e_threshold"
    /\ \E ok \in BOOLEAN, t \in ThresholdValues(call[p].n) :
          IF ok
          THEN /\ thresholds' =
                     [thresholds EXCEPT ![p][call[p].user] = ThresholdOf(t, call[p].run)]
               /\ pc' = [pc EXCEPT ![p] = "e_save_thr"]
               /\ ret' = NoRet
               /\ UNCHANGED call
          ELSE /\ Finish(p, enroll_except("RuntimeError", call[p].user, call[p].run))
               /\ UNCHANGED thresholds
    /\ UNCHANGED <<embFile, thrFile, enrolled_speakers, runs, vadVars, batchVars, moreVars>>

\* lines 72-76: write {'threshold': threshold} to the threshold file, return True
EnrollSaveThreshold(p) ==
    /\ pc[p] = "e_save_thr"
    /\ \E ok \in BOOLEAN :
          IF ok
          THEN /\ thrFile' = [thrFile EXCEPT ![call[p].user] =
                                 ThresholdFile(json_dump(thresholds[p][call[p].user].threshold),
                                               call[p].run)]
               /\ Finish(p, EnrollReturn(TRUE, "", call[p].user, call[p].run))
          ELSE /\ Finish(p, enroll_except("OSError", call[p].user, call[p].run))
               /\ UNCHANGED thrFile
    /\ UNCHANGED <<embFile, enrolled_speakers, thresholds, runs, vadVars, batchVars, moreVars>>

\* verify_speaker lines 86-93: the lookup in memory, then on disk
VerifyStart(p, u) ==
    /\ pc[p] = "idle"
    /\ IF NeedsLoad(p, u)
       THEN IF ModelOnDisk(u)
            THEN /\ pc' = [pc EXCEPT ![p] = "v_load_emb"]
                 /\ call' = [call EXCEPT ![p] = [user |-> u, run |-> 0, n |-> 0]]
                 /\ ret' = NoRet
            ELSE /\ ret' = VerifyError("Speaker not enrolled", u)
                 /\ UNCHANGED <<pc, call>>
       ELSE /\ pc' = [pc EXCEPT ![p] = "v_audio"]
            /\ call' = [call EXCEPT ![p] = [user |-> u, run |-> 0, n |-> 0]]
            /\ ret' = NoRet
    /\ UNCHANGED <<embFile, thrFile, enrolled_speakers, thresholds, runs, vadVars, batchVars, moreVars>>

\* line 95: self.enrolled_speakers[username] = torch.load(embedding_path)
VerifyLoadEmbedding(p) ==
    /\ pc[p] = "v_load_emb"
    /\ \E ok \in BOOLEAN :
          IF ok
          THEN /\ enrolled_speakers' =
                     [enrolled_speakers EXCEPT ![p][call[p].user] = embFile[call[p].user]]
               /\ pc' = [pc EXCEPT ![p] = "v_load_thr"]
               /\ ret' = NoRet
               /\ UNCHANGED call
          ELSE /\ Finish(p, verify_except("OSError", call[p].user))
               /\ UNCHANGED enrolled_speakers
    /\ UNCHANGED <<embFile, thrFile, thresholds, runs, vadVars, batchVars, moreVars>>

\* lines 96-97: self.thresholds[username] = json.load(f)['threshold']
VerifyLoadThreshold(p) ==
    /\ pc[p] = "v_load_thr"
    /\ \E ok \in BOOLEAN :
          IF ok
          THEN /\ thresholds' = [thresholds EXCEPT ![p][call[p].user] =
                                    ThresholdOf(json_load_threshold(thrFile[call[p].user].text),
                                                thrFile[call[p].user].run)]
               /\ pc' = [pc EXCEPT ![p] = "v_audio"]
               /\ ret' = NoRet
               /\ UNCHANGED call
          ELSE /\ Finish(p, verify_except("OSError", call[p].user))
               /\ UNCHANGED thresholds
    /\ UNCHANGED <<embFile, thrFile, enrolled_speakers, runs, vadVars, batchVars, moreVars>>

\* lines 99-122: load the test audio, VAD, embed, compare, build the result
VerifyScore(p) ==
    /\ pc[p] = "v_audio"
    /\ \E clip \in ClipKinds :
          IF ClipOutcome(clip) \in LoadErrors
          THEN Finish(p, verify_except(ClipOutcome(clip), call[p].user))
          ELSE IF ClipOutcome(clip) = "empty"
          THEN Finish(p, VerifyError("No speech detected", call[p].user))
          ELSE \E encoderOk \in BOOLEAN :
                 IF ~encoderOk THEN Finish(p, verify_except("RuntimeError", call[p].user))
                 ELSE \E similarity \in Sims :
                        Finish(p, VerifyResult(
                                     sv_verify_speaker(similarity, ThresholdUsed(p, call[p].user)),
                                     similarity, ThresholdUsed(p, call[p].user),
                                     call[p].user))
    /\ UNCHANGED <<embFile, thrFile, enrolled_speakers, thresholds, runs, vadVars, batchVars, moreVars>>

\* voice_auth.py authenticate_user(test_file, enroll_embed, threshold=0.82)
Authenticate ==
    /\ \E score \in Sims \cup {AuthDefaultThreshold} :
          ret' = [op |-> "authenticate", raised |-> FALSE,
                  verified |-> authenticate_user(score, Num(AuthDefaultThreshold)),
                  error |-> NoError, scored |-> TRUE, confidence |-> score,
                  threshold |-> Num(AuthDefaultThreshold), failure |-> "", user |-> "-"]
    /\ UNCHANGED <<embFile, thrFile, enrolled_speakers, thresholds, pc, call, runs, vadVars, batchVars, moreVars>>

SysNext ==
    \/ \E p \in Procs : NewInstance(p)
    \/ \E p \in Procs, u \in EnrollUsers : EnrollStart(p, u)
    \/ \E p \in Procs : EnrollSaveEmbedding(p)
    \/ \E p \in Procs : EnrollComputeThreshold(p)
    \/ \E p \in Procs : EnrollSaveThreshold(p)
    \/ \E p \in Procs, u \in Users : VerifyStart(p, u)
    \/ \E p \in Procs : VerifyLoadEmbedding(p)
    \/ \E p \in Procs : VerifyLoadThreshold(p)
    \/ \E p \in Procs : VerifyScore(p)
    \/ Authenticate

----------------------------------------------------------------------------
(* Claims about the enrollment / verification system, under Spec *)

\* C1: every decision routine accepts exactly when score >= threshold: a
\* score equal to the threshold is accepted, a larger one accepted, a
\* smaller one rejected.
C1_AcceptIffScoreAtLeastThreshold ==
    (ret.op \in {"verify", "authenticate"} /\ ret.scored /\ ~ret.threshold.isnan) =>
        (ret.verified <=> ret.confidence >= ret.threshold.v)

\* C2: verify_speaker for a username with no entry in memory and with the
\* embedding file or the threshold file missing returns, in that very step
\* (so before any test audio is loaded or scored), the not-found result with
\* verified = false and an error, raises nothing, and leaves the in-memory
\* tables as they were.
C2_UnknownUserGetsNotFound ==
    [][\A p \in Procs, u \in Users :
          (/\ VerifyStart(p, u)
           /\ enrolled_speakers[p][u] = Absent
           /\ (embFile[u] = Absent \/ thrFile[u] = Absent))
          => /\ ret' = VerifyError("Speaker not enrolled", u)
             /\ ~ret'.raised /\ ~ret'.verified /\ ret'.error # NoError
             /\ pc'[p] = "idle"
             /\ enrolled_speakers' = enrolled_speakers
             /\ thresholds' = thresholds]_vars

\* the not-found result was returned for a username whose embedding file
\* exists while its threshold file does not
C2_Witness ==
    /\ ret = VerifyError("Speaker not enrolled", "alice")
    /\ embFile["alice"] # Absent
    /\ thrFile["alice"] = Absent

\* C3: enroll_speaker and verify_speaker never raise to their caller; after
\* a failure at any step enroll_speaker returns False and verify_speaker a
\* result with verified = false and an error; a result with verified = true
\* carries no error.
C3_FailuresAreReturnedNotRaised ==
    /\ ret.op = "enroll" =>
          /\ ~ret.raised
          /\ (ret.failure # "" => ret.value = FALSE)
    /\ ret.op = "verify" =>
          /\ ~ret.raised
          /\ (ret.failure # "" => (~ret.verified /\ ret.error # NoError))
          /\ (ret.verified => ret.error = NoError)

\* a verification in which the voice activity detector raised has returned
C3_Witness == ret.op = "verify" /\ ret.failure = "ValueError"

VerifyStep(p) ==
    \/ \E u \in Users : VerifyStart(p, u)
    \/ VerifyLoadEmbedding(p)
    \/ VerifyLoadThreshold(p)
    \/ VerifyScore(p)

\* C4: no step of verify_speaker, whatever its outcome, changes a persisted
\* embedding or threshold of any username, nor an embedding or threshold an
\* instance already holds in memory.
C4_VerificationMutatesNoModel ==
    [][\A p \in Procs :
          VerifyStep(p) =>
             /\ embFile' = embFile
             /\ thrFile' = thrFile
             /\ \A q \in Procs, u \in Users :
                   /\ enrolled_speakers[q][u] # Absent =>
                         enrolled_speakers'[q][u] = enrolled_speakers[q][u]
                   /\ thresholds[q][u] # Absent =>
                         thresholds'[q][u] = thresholds[q][u]]_vars

\* a verification has accepted against a model that is on disk in a version
\* newer than the one the verifying instance holds
C4_Witness ==
    /\ ret.op = "verify" /\ ret.verified
    /\ \E p \in Procs :
          /\ ModelOnDisk(ret.user)
          /\ enrolled_speakers[p][ret.user] # Absent
          /\ enrolled_speakers[p][ret.user] # embFile[ret.user]

InEnroll(p, u) == pc[p] \in {"e_save_emb", "e_threshold", "e_save_thr"} /\ call[p].user = u
BetweenWrites(p, u) == pc[p] \in {"e_threshold", "e_save_thr"} /\ call[p].user = u

FloatEq(a, b) == ~a.isnan /\ ~b.isnan /\ a.v = b.v

\* the text is one flat mapping with the single key "threshold" whose value
\* is a JSON number
FlatThresholdRecord(text) ==
    /\ Len(text) = 1
    /\ text[1].key = "threshold"
    /\ text[1].value.kind = "number"

StableOnDisk(u) ==
    /\ ModelOnDisk(u)
    /\ embFile[u].run = thrFile[u].run
    /\ \A q \in Procs : ~InEnroll(q, u)

AcceptsSomeScore(t) == \E s \in Sims : sv_verify_speaker(s, t)

----------------------------------------------------------------------------
(* main.py: the login command.  The recorder, the deepfake detector and   *)
(* the VoiceVerifier it calls are collaborators: what each of them does   *)
(* in the login under study is drawn in LoginInit.  Fake probabilities    *)
(* are percentages in hundredths (70.0 is 7000).                          *)

FakeLimit == 7000                 \* result['probabilities']['fake'] < 70.0
FakeVals == {0, 6999, 7000, 7001, 10000}

\* detector.predict_single(histogram_path): it raises, returns None, returns
\* an empty (falsy) mapping, or a mapping; `complete` tells whether the
\* mapping holds every key lines 86-92 read
DetectorOutcomes ==
    {[kind |-> k, complete |-> FALSE, fake |-> NaN] : k \in {"raise", "none", "empty"}}
    \cup {[kind |-> "dict", complete |-> c, fake |-> f] :
             c \in BOOLEAN, f \in {Num(v) : v \in FakeVals} \cup {NaN}}

\* what voice_verifier.verify_speaker(username, output_file) can return
VerificationOutcomes(u) ==
    {VerifyError("Speaker not enrolled", u), VerifyError("No speech detected", u)}
    \cup {verify_except(e, u) : e \in LoadErrors \cup {"RuntimeError", "OSError"}}
    \cup {VerifyResult(sv_verify_speaker(sim, t), sim, t, u) :
             sim \in Sims, t \in {Num(x) : x \in ThrVals \cup {DefaultThreshold}} \cup {NaN}}

\* (variant: the comparison admits a fake probability of exactly 70.0)
fake_below_limit_inclusive(result) ==
    ~result.fake.isnan /\ result.fake.v <= FakeLimit

\* line 92: result['probabilities']['fake'] < 70.0 (False for nan)
fake_below_limit(result) ==
    ~result.fake.isnan /\ result.fake.v < FakeLimit

\* line 84: `if result:` (None and an empty mapping are falsy)
truthy(result) == result.kind = "dict"

\* `return` at the given line, or the `except Exception` of lines 114-117
LoginReturn(v, line) ==
    [kind |-> "returned", value |-> v, raised |-> FALSE, failure |-> "", line |-> line]
login_except(e) ==
    [kind |-> "returned", value |-> FALSE, raised |-> FALSE, failure |-> e, line |-> 117]

LoginFinish(result) ==
    /\ loginPc' = "done"
    /\ loginRet' = result

LoginInit ==
    /\ loginIn \in [user : EnrollUsers,
                    userFile : BOOLEAN,
                    record : {"ok", "raise"},
                    detector : DetectorOutcomes,
                    verifier : {"ok", "raise"},
                    verification : UNION {VerificationOutcomes(u) : u \in EnrollUsers}]
    /\ loginIn.verification.user = loginIn.user
    /\ loginPc = "main"
    /\ loginDet = NotRun
    /\ verifyCalls = 0
    /\ loginRet = NotRun

\* main lines 156-163: login only for a username whose threshold file exists
MainLogin ==
    /\ loginPc = "main"
    /\ loginPc' = IF loginIn.userFile THEN "record" ELSE "exit"
    /\ UNCHANGED <<loginIn, loginDet, verifyCalls, loginRet>>
    /\ UNCHANGED <<vadVars, batchVars, sysVars, poolVars, fxVars, calVars, trainVars>>

\* login lines 46-74: make the directory, record, save the recording
LoginRecord ==
    /\ loginPc = "record"
    /\ IF loginIn.record = "raise"
       THEN LoginFinish(login_except("recording"))
       ELSE loginPc' = "detect" /\ UNCHANGED loginRet
    /\ UNCHANGED <<loginIn, loginDet, verifyCalls>>
    /\ UNCHANGED <<vadVars, batchVars, sysVars, poolVars, fxVars, calVars, trainVars>>

\* lines 76-82: process_audio, DeepfakeDetector(...), predict_single
LoginDetect ==
    /\ loginPc = "detect"
    /\ IF loginIn.detector.kind = "raise"
       THEN LoginFinish(login_except("detector")) /\ UNCHANGED loginDet
       ELSE loginPc' = "decide" /\ loginDet' = loginIn.detector /\ UNCHANGED loginRet
    /\ UNCHANGED <<loginIn, verifyCalls>>
    /\ UNCHANGED <<vadVars, batchVars, sysVars, poolVars, fxVars, calVars, trainVars>>

\* lines 84-92 and 108-112: print the result, compare the fake probability
LoginDecide ==
    /\ loginPc = "decide"
    /\ IF ~truthy(loginDet) THEN LoginFinish(LoginReturn(FALSE, 112))
       ELSE IF ~loginDet.complete THEN LoginFinish(login_except("KeyError"))
       ELSE IF fake_below_limit(loginDet) THEN loginPc' = "verify" /\ UNCHANGED loginRet
       ELSE LoginFinish(LoginReturn(FALSE, 110))
    /\ UNCHANGED <<loginIn, loginDet, verifyCalls>>
    /\ UNCHANGED <<vadVars, batchVars, sysVars, poolVars, fxVars, calVars, trainVars>>

\* lines 93-107: VoiceVerifier(), verify_speaker, verification_result.get('verified', False)
LoginVerify ==
    /\ loginPc = "verify"
    /\ IF loginIn.verifier = "raise"
       THEN LoginFinish(login_except("VoiceVerifier")) /\ UNCHANGED verifyCalls
       ELSE /\ verifyCalls' = verifyCalls + 1
            /\ IF loginIn.verification.verified
               THEN LoginFinish(LoginReturn(TRUE, 102))
               ELSE LoginFinish(LoginReturn(FALSE, 107))
    /\ UNCHANGED <<loginIn, loginDet>>
    /\ UNCHANGED <<vadVars, batchVars, sysVars, poolVars, fxVars, calVars, trainVars>>

LoginNext == MainLogin \/ LoginRecord \/ LoginDetect \/ LoginDecide \/ LoginVerify

\* the detector gave no result, or a fake probability of 70.0 or more
NoResultOrFake(det) ==
    \/ det.kind \in {"none", "empty"}
    \/ det.kind = "dict" /\ ~det.fake.isnan /\ det.fake.v >= 7000

\* C22: login returns True only if the detector produced a result with a
\* fake probability below 70.0 and the speaker verification that followed
\* returned verified = true; when the detector returns no result or a fake
\* probability of 70.0 or more, verify_speaker is never invoked and login
\* returns False; any exception in the flow yields False (and is not raised).
C22_LoginRequiresRealVoiceAndVerification ==
    /\ (loginRet # NotRun /\ loginRet.value) =>
          /\ loginDet # NotRun /\ loginDet.kind = "dict"
          /\ ~loginDet.fake.isnan /\ loginDet.fake.v < 7000
          /\ verifyCalls = 1
          /\ loginIn.verification.verified
    /\ (loginDet # NotRun /\ NoResultOrFake(loginDet)) =>
          /\ verifyCalls = 0
          /\ loginPc # "verify"
          /\ loginPc = "done" => (loginRet # NotRun /\ ~loginRet.value)
    /\ (loginRet # NotRun /\ loginRet.failure # "") =>
          (~loginRet.raised /\ ~loginRet.value)
    /\ loginPc \in {"done", "exit"} => (loginPc = "done" <=> loginRet # NotRun)

\* a login with fake probability 69.99 was verified and returned True
C22_Witness ==
    /\ loginPc = "done" /\ loginRet.value
    /\ loginDet.fake = Num(6999)
    /\ verifyCalls = 1

----------------------------------------------------------------------------
(* The specifications *)

NoInput == [dtype |-> "float", rate |-> 100, audio |-> <<>>]

VadIdle == vadIn = NoInput /\ vadOut = NotRun /\ featOut = NotRun
BatchIdle == files = <<>> /\ ubmPool = NotRun /\ gmmPool = NotRun
PoolIdle == taskStarted = 0 /\ taskDone = <<>> /\ collected = <<>> /\ parPool = NotRun
FxIdle == fxIn = NotRun /\ deltaOut = NotRun /\ keptOut = NotRun /\ combOut = NotRun
NoSave == [model_path |-> <<>>, with_threshold |-> FALSE]
CalIdle ==
    /\ calIn = <<>> /\ calOut = NotRun /\ recOut = NotRun
    /\ saveIn = NoSave /\ gmmDisk = <<>>
TrainIdle == trainIn = NotRun /\ ubmFile = Absent /\ ubmOut = NotRun /\ gmmOut = NotRun
NoLogin == [user |-> "-"]
LoginIdle ==
    /\ loginIn = NoLogin /\ loginPc = "idle" /\ loginDet = NotRun
    /\ verifyCalls = 0 /\ loginRet = NotRun

\* the enrollment / verification system
Init == SysInit /\ VadIdle /\ BatchIdle /\ PoolIdle /\ FxIdle /\ CalIdle /\ TrainIdle /\ LoginIdle
Next == SysNext
Spec == Init /\ [][Next]_vars

\* detect_speech and extract_features on every bounded input
InitVAD == VadInit /\ BatchIdle /\ SysInit /\ PoolIdle /\ FxIdle /\ CalIdle /\ TrainIdle /\ LoginIdle
SpecVAD == InitVAD /\ [][VadNext]_vars

\* batch corpus loading on every bounded file list
InitBatch == BatchInit /\ VadIdle /\ SysInit /\ PoolIdle /\ FxIdle /\ CalIdle /\ TrainIdle /\ LoginIdle
SpecBatch == InitBatch /\ [][BatchNext]_vars

\* the variance filter and calculate_delta on every bounded input
InitFx == FxInit /\ VadIdle /\ BatchIdle /\ SysInit /\ PoolIdle /\ CalIdle /\ TrainIdle /\ LoginIdle
SpecFx == InitFx /\ [][FxNext]_vars

\* calculate_threshold and save_gmm_model on every bounded score list
InitCal == CalInit /\ VadIdle /\ BatchIdle /\ SysInit /\ PoolIdle /\ FxIdle /\ TrainIdle /\ LoginIdle
SpecCal == InitCal /\ [][CalNext]_vars

\* train_ubm, then train_gmm, on every bounded corpus
InitTrain == TrainInit /\ VadIdle /\ BatchIdle /\ SysInit /\ PoolIdle /\ FxIdle /\ CalIdle /\ LoginIdle
SpecTrain == InitTrain /\ [][TrainNext]_vars

\* the worker pool of gmm.py on every bounded file list
InitPool == PoolInit /\ VadIdle /\ SysInit /\ FxIdle /\ CalIdle /\ TrainIdle /\ LoginIdle
SpecPool == InitPool /\ [][PoolNext]_vars

\* the login command of main.py for every behaviour of its collaborators
InitLogin == LoginInit /\ SysInit /\ VadIdle /\ BatchIdle /\ PoolIdle /\ FxIdle /\ CalIdle /\ TrainIdle
SpecLogin == InitLogin /\ [][LoginNext]_vars

====
